---- MODULE Spec2Model ----
(***************************************************************************)
(* Model of docs/sphinx/conf.py: the Sphinx configuration script that      *)
(* imports subprocess, runs one shell command (an and-list of six steps)   *)
(* with subprocess.call(..., shell=True) and then sets html_extra_path.    *)
(*                                                                         *)
(* Paths are sequences of components below "/": <<"srv","docs">> is        *)
(* /srv/docs, <<>> is /.  A relative path is a sequence that may hold the  *)
(* components ".." and ".".  PATH is a sequence of such directories.       *)
(***************************************************************************)
EXTENDS Naturals, Sequences, FiniteSets, TLC

VARIABLES
    pc,         \* position of the Python interpreter in conf.py
    config,     \* the module namespace of conf.py: name -> value
    cmd,        \* the command handed to the shell (<<>> before it is built)
    ncalls,     \* number of subprocesses spawned so far
    pycwd,      \* working directory of the Python process
    pypath,     \* PATH of the Python process
    home,       \* HOME of the Python process (inherited by the shell)
    shstate,    \* "none" | "running" | "exited": the spawned shell
    shidx,      \* index in cmd of the next step the shell looks at
    shlast,     \* exit status of the last step run ($?), the shell's own status
    shcwd,      \* working directory of the shell
    shpath,     \* PATH of the shell
    log,        \* the steps the shell has run, in order, with their context
    docs        \* directories into which make has written documentation

vars == <<pc, config, cmd, ncalls, pycwd, pypath, home,
          shstate, shidx, shlast, shcwd, shpath, log, docs>>

pyvars == <<pc, config, cmd, ncalls, pycwd, pypath, home>>
shvars == <<shstate, shidx, shlast, shcwd, shpath, log, docs>>

---------------------------------------------------------------------------
(* Bounds of the inputs.                                                   *)

MaxRootDepth == 1       \* depth of the directory holding the repository
MaxPathEntries == 1     \* entries of the PATH the script is started with

DirNames == {"srv", "repo"}
PathDirs == {<<"usr", "bin">>, <<"home", "u", ".conda", "bin">>}
Homes == {<<"home", "u">>, <<>>}     \* <<>>: HOME unset or empty

SeqsUpTo(S, n) == UNION {[1..k -> S] : k \in 0..n}

\* Where the script may be started: the configuration directory docs/sphinx
\* of a checkout (how Sphinx runs it), or another directory of the checkout.
StartDirs == {<<"docs", "sphinx">>, <<"docs">>, <<>>}

\* Exit statuses of an external command: success, failure, command not found.
Statuses == {0, 1, 127}

---------------------------------------------------------------------------
(* The shell command, conf.py lines 16-23.                                 *)

Step(k, a, t) == [kind |-> k, arg |-> a, then |-> t]

CommandSwapped ==
    << Step("conda", <<"install", "--yes", "cmake">>, "&&"),
       Step("conda", <<"install", "--yes", "--channel", "conda-forge", "doxygen">>, "&&"),
       Step("assign", <<"PATH">>, "&&"),
       Step("cmake", <<"-DBUILD_DOC=ON", ".">>, "&&"),
       Step("cd", <<"..", "..">>, "&&"),
       Step("make", <<"megafauna_docs">>, "end") >>

Command ==
    << Step("conda", <<"install", "--yes", "cmake">>, "&&"),
       Step("conda", <<"install", "--yes", "--channel", "conda-forge", "doxygen">>, "&&"),
       Step("assign", <<"PATH">>, "&&"),
       Step("cd", <<"..", "..">>, "&&"),
       Step("cmake", <<"-DBUILD_DOC=ON", ".">>, "&&"),
       Step("make", <<"megafauna_docs">>, "end") >>

\* The path written without its leading "..".
HtmlExtraPathLocal == << <<"html">> >>

\* The value of html_extra_path, line 27: one relative path, ../html
HtmlExtraPath == << <<"..", "html">> >>

\* Line 26: the build writes the documentation to docs/html below the
\* directory in which cmake and make run.
DocOutputDir == <<"docs", "html">>

---------------------------------------------------------------------------
(* Path arithmetic.                                                        *)

Front(s) == SubSeq(s, 1, Len(s) - 1)

\* One component of a relative path applied to an absolute directory.
ApplyComponent(dir, c) ==
    IF c = ".." THEN (IF dir = <<>> THEN <<>> ELSE Front(dir))
    ELSE IF c = "." THEN dir
    ELSE Append(dir, c)

RECURSIVE Resolve(_, _)
Resolve(dir, rel) ==
    IF rel = <<>> THEN dir
    ELSE Resolve(ApplyComponent(dir, Head(rel)), Tail(rel))

CondaBin(h) == h \o <<".conda", "bin">>

\* PATH=$HOME/.conda/bin:$PATH
PathUpdateAppended(h, p) == p \o <<CondaBin(h)>>

PathUpdate(h, p) == <<CondaBin(h)>> \o p

---------------------------------------------------------------------------
(* The shell's and-list: after a step with status s, which step is next.   *)

RECURSIVE SkipAnd(_, _)
SkipAnd(c, i) ==
    IF i > Len(c) THEN i
    ELSE IF c[i].then = "&&" THEN SkipAnd(c, i + 1)
    ELSE i + 1

NextIdxRetry(c, i, s) == IF s = 0 THEN i + 1 ELSE i

NextIdxIgnoring(c, i, s) == i + 1

NextIdx(c, i, s) == IF s = 0 THEN i + 1 ELSE SkipAnd(c, i)

Entry(i, s) ==
    [idx |-> i, kind |-> cmd[i].kind, arg |-> cmd[i].arg,
     cwd |-> shcwd, path |-> shpath, status |-> s]

AtStep(k) ==
    /\ shstate = "running"
    /\ shidx <= Len(cmd)
    /\ cmd[shidx].kind = k

Ran(s) ==
    /\ log' = Append(log, Entry(shidx, s))
    /\ shlast' = s
    /\ shidx' = NextIdx(cmd, shidx, s)

---------------------------------------------------------------------------
(* The Python script.                                                      *)

Init ==
    /\ pc = "start"
    /\ config = << >>
    /\ cmd = << >>
    /\ ncalls = 0
    /\ pycwd \in {r \o d : r \in SeqsUpTo(DirNames, MaxRootDepth), d \in StartDirs}
    /\ pypath \in SeqsUpTo(PathDirs, MaxPathEntries)
    /\ home \in Homes
    /\ shstate = "none"
    /\ shidx = 0
    /\ shlast = 0
    /\ shcwd = << >>
    /\ shpath = << >>
    /\ log = << >>
    /\ docs = {}

\* line 11: import subprocess
Import ==
    /\ pc = "start"
    /\ pc' = "imported"
    /\ config' = ("subprocess" :> <<"module">>)
    /\ UNCHANGED <<cmd, ncalls, pycwd, pypath, home>>
    /\ UNCHANGED shvars

\* lines 16-23: the string literal that is the argument of the call
BuildCommand ==
    /\ pc = "imported"
    /\ pc' = "built"
    /\ cmd' = Command
    /\ UNCHANGED <<config, ncalls, pycwd, pypath, home>>
    /\ UNCHANGED shvars

\* lines 15, 24: subprocess.call(..., shell=True) spawns /bin/sh -c cmd; the
\* child starts with a copy of the parent's working directory and environment.
SubprocessCall ==
    /\ pc = "built"
    /\ pc' = "waiting"
    /\ ncalls' = ncalls + 1
    /\ shstate' = "running"
    /\ shidx' = 1
    /\ shlast' = 0
    /\ shcwd' = pycwd
    /\ shpath' = pypath
    /\ UNCHANGED <<config, cmd, pycwd, pypath, home, log, docs>>

\* lines 17-18: conda install ...
RunConda ==
    /\ AtStep("conda")
    /\ \E s \in Statuses : Ran(s)
    /\ UNCHANGED <<shstate, shcwd, shpath, docs>>
    /\ UNCHANGED pyvars

\* line 19: PATH=$HOME/.conda/bin:$PATH   (an assignment: status 0)
RunAssign ==
    /\ AtStep("assign")
    /\ shpath' = PathUpdate(home, shpath)
    /\ Ran(0)
    /\ UNCHANGED <<shstate, shcwd, docs>>
    /\ UNCHANGED pyvars

\* A cd that changed the directory of the Python process as well.
RunCdInParent ==
    /\ AtStep("cd")
    /\ \/ /\ shcwd' = Resolve(shcwd, cmd[shidx].arg)
          /\ pycwd' = Resolve(shcwd, cmd[shidx].arg)
          /\ Ran(0)
       \/ /\ UNCHANGED <<shcwd, pycwd>>
          /\ Ran(1)
    /\ UNCHANGED <<shstate, shpath, docs>>
    /\ UNCHANGED <<pc, config, cmd, ncalls, pypath, home>>

\* line 20: cd ../..   (fails when the directory cannot be entered)
RunCd ==
    /\ AtStep("cd")
    /\ \/ /\ shcwd' = Resolve(shcwd, cmd[shidx].arg)
          /\ Ran(0)
       \/ /\ UNCHANGED shcwd
          /\ Ran(1)
    /\ UNCHANGED <<shstate, shpath, docs>>
    /\ UNCHANGED pyvars

\* line 21: cmake -DBUILD_DOC=ON .
RunCmake ==
    /\ AtStep("cmake")
    /\ \E s \in Statuses : Ran(s)
    /\ UNCHANGED <<shstate, shcwd, shpath, docs>>
    /\ UNCHANGED pyvars

\* line 22: make megafauna_docs.  On success the documentation is in
\* docs/html below the build directory (line 26); a failing make may or may
\* not have written output before it failed.
RunMake ==
    /\ AtStep("make")
    /\ \/ /\ Ran(0)
          /\ docs' = docs \cup {shcwd \o DocOutputDir}
       \/ /\ \E s \in Statuses \ {0} : Ran(s)
          /\ \/ docs' = docs \cup {shcwd \o DocOutputDir}
             \/ UNCHANGED docs
    /\ UNCHANGED <<shstate, shcwd, shpath>>
    /\ UNCHANGED pyvars

\* The shell has no step left: it exits with the status of the last step run.
ShellExit ==
    /\ shstate = "running"
    /\ shidx > Len(cmd)
    /\ shstate' = "exited"
    /\ UNCHANGED <<shidx, shlast, shcwd, shpath, log, docs>>
    /\ UNCHANGED pyvars

\* subprocess.check_call: a non-zero status raises CalledProcessError.
CallReturnsChecked ==
    /\ pc = "waiting"
    /\ shstate = "exited"
    /\ pc' = IF shlast = 0 THEN "returned" ELSE "raised"
    /\ UNCHANGED <<config, cmd, ncalls, pycwd, pypath, home>>
    /\ UNCHANGED shvars

\* subprocess.Popen: the call returns without waiting for the shell.
CallReturnsNoWait ==
    /\ pc = "waiting"
    /\ pc' = "returned"
    /\ UNCHANGED <<config, cmd, ncalls, pycwd, pypath, home>>
    /\ UNCHANGED shvars

\* lines 15-25: subprocess.call waits for the shell and returns its status,
\* whatever it is; the expression statement discards the value.
CallReturns ==
    /\ pc = "waiting"
    /\ shstate = "exited"
    /\ pc' = "returned"
    /\ UNCHANGED <<config, cmd, ncalls, pycwd, pypath, home>>
    /\ UNCHANGED shvars

\* An assignment that depends on the status of the command.
AssignHtmlExtraPathOnSuccess ==
    /\ pc = "returned"
    /\ pc' = "done"
    /\ config' = IF shlast = 0
                 THEN config @@ ("html_extra_path" :> HtmlExtraPath)
                 ELSE config @@ ("html_extra_path" :> << >>) @@ ("build_failed" :> <<"True">>)
    /\ UNCHANGED <<cmd, ncalls, pycwd, pypath, home>>
    /\ UNCHANGED shvars

\* line 27: html_extra_path = ['../html']
AssignHtmlExtraPath ==
    /\ pc = "returned"
    /\ pc' = "done"
    /\ config' = config @@ ("html_extra_path" :> HtmlExtraPath)
    /\ UNCHANGED <<cmd, ncalls, pycwd, pypath, home>>
    /\ UNCHANGED shvars

Next ==
    \/ Import
    \/ BuildCommand
    \/ SubprocessCall
    \/ RunConda
    \/ RunAssign
    \/ RunCd
    \/ RunCmake
    \/ RunMake
    \/ ShellExit
    \/ CallReturns
    \/ AssignHtmlExtraPath

Spec == Init /\ [][Next]_vars

\* The interpreter and every started command keep running until they end.
FairSpec == Spec /\ WF_vars(Next)

---------------------------------------------------------------------------
(* Properties.                                                             *)

ConfigAtEnd ==
    ("subprocess" :> <<"module">>) @@ ("html_extra_path" :> << <<"..", "html">> >>)

Assigned == "html_extra_path" \in DOMAIN config

SomeStepFailed == \E i \in DOMAIN log : log[i].status # 0

MakeWasRun == \E i \in DOMAIN log : log[i].kind = "make"

\* The script runs in the configuration directory <root>/docs/sphinx.
InConfDir(d) ==
    /\ Len(d) >= 2
    /\ SubSeq(d, Len(d) - 1, Len(d)) = <<"docs", "sphinx">>

\* C1: whatever the exit status of the shell command (a failing step, a tool
\* that is not found), the script never raises: once the shell has exited the
\* call returns, and after the call the assignment of html_extra_path is next.
C1_NeverRaises ==
    /\ pc \in {"start", "imported", "built", "waiting", "returned", "done"}
    /\ (pc = "waiting" /\ shstate = "exited") => ENABLED CallReturns
    /\ pc = "returned" => ENABLED AssignHtmlExtraPath

C1_Witness ==
    /\ pc = "done"
    /\ Assigned
    /\ shlast = 127

\* C2: the command is built, then the subprocess is spawned exactly once and
\* waited for, then html_extra_path is assigned: the shell exists only after
\* the command was built, the call has returned only when the shell has
\* exited, and html_extra_path is assigned only after that.
C2_Order ==
    /\ ncalls <= 1
    /\ (shstate # "none") <=> (ncalls = 1)
    /\ ncalls = 1 => (cmd = Command /\ pc \in {"waiting", "returned", "done"})
    /\ pc \in {"returned", "done"} => (ncalls = 1 /\ shstate = "exited")
    /\ Assigned <=> pc = "done"

C2_Witness ==
    /\ pc = "done"
    /\ ncalls = 1
    /\ shstate = "exited"
    /\ Assigned

\* C3: the shell runs conda install cmake, conda install doxygen from
\* conda-forge, the PATH update, cd ../.., cmake -DBUILD_DOC=ON . and make
\* megafauna_docs in this order, and a step runs only if every step before it
\* has run and succeeded.
C3_StepOrder ==
    /\ Len(log) <= 6
    /\ \A i \in DOMAIN log :
          /\ log[i].idx = i
          /\ \A j \in 1..(i - 1) : log[j].status = 0
          /\ i = 1 => (log[i].kind = "conda" /\ log[i].arg = <<"install", "--yes", "cmake">>)
          /\ i = 2 => /\ log[i].kind = "conda"
                      /\ log[i].arg = <<"install", "--yes", "--channel", "conda-forge", "doxygen">>
          /\ i = 3 => (log[i].kind = "assign" /\ log[i].arg = <<"PATH">>)
          /\ i = 4 => (log[i].kind = "cd" /\ log[i].arg = <<"..", "..">>)
          /\ i = 5 => (log[i].kind = "cmake" /\ log[i].arg = <<"-DBUILD_DOC=ON", ".">>)
          /\ i = 6 => (log[i].kind = "make" /\ log[i].arg = <<"megafauna_docs">>)

C3_Witness ==
    /\ shstate = "exited"
    /\ Len(log) = 6
    /\ log[6].kind = "make"
    /\ log[6].status = 0

\* C4: when the script runs in <root>/docs/sphinx, html_extra_path[0] resolved
\* against the script's directory is docs/html resolved against the directory
\* in which cmake and make ran, and is the only place the build wrote to.
C4_ExtraPathIsBuildOutput ==
    (pc = "done" /\ InConfDir(pycwd)) =>
        /\ \A i \in DOMAIN log :
              log[i].kind \in {"cmake", "make"} =>
                  Resolve(pycwd, config["html_extra_path"][1]) = Resolve(log[i].cwd, <<"docs", "html">>)
        /\ docs \subseteq {Resolve(pycwd, config["html_extra_path"][1])}

C4_Witness ==
    /\ pc = "done"
    /\ InConfDir(pycwd)
    /\ MakeWasRun
    /\ docs = {Resolve(pycwd, <<"..", "html">>)}

\* C5: at the end the namespace holds html_extra_path = ['../html'] and
\* besides the imported module nothing else, the same value whatever the
\* shell's exit status and whatever step failed; before the end the script
\* has set no variable.
C5_StaticConfig ==
    /\ pc = "done" => config = ConfigAtEnd
    /\ pc # "done" => DOMAIN config \subseteq {"subprocess"}

C5_Witness ==
    /\ pc = "done"
    /\ config = ConfigAtEnd
    /\ shlast = 1
    /\ Len(log) = 5

\* C6: no step is run twice, a step that failed is the last step run, and so
\* at most six steps are run.
C6_NoRetry ==
    /\ \A i, j \in DOMAIN log : i # j => log[i].idx # log[j].idx
    /\ \A i \in DOMAIN log : log[i].status # 0 => i = Len(log)
    /\ Len(log) <= 6

C6_Witness ==
    /\ pc = "done"
    /\ Len(log) = 2
    /\ log[2].status # 0

\* C7 as stated: if any step failed, make was not run and no documentation
\* was written, and the final namespace is the one of a successful run.
C7_Original ==
    (pc = "done" /\ SomeStepFailed) =>
        /\ ~MakeWasRun
        /\ docs = {}
        /\ config = ConfigAtEnd

\* C7 amended: if a step before make megafauna_docs failed, make was not run
\* and no documentation was written; if any step failed, make included, the
\* final namespace is the one of a successful run, so the failure is recorded
\* in no variable of the script.
C7_Amended ==
    /\ (pc = "done" /\ \E i \in DOMAIN log : log[i].status # 0 /\ log[i].kind # "make") =>
          (~MakeWasRun /\ docs = {})
    /\ (pc = "done" /\ SomeStepFailed) => config = ConfigAtEnd

C7_Witness ==
    /\ pc = "done"
    /\ Len(log) = 4
    /\ log[4].kind = "cd"
    /\ log[4].status # 0
    /\ docs = {}

\* C8: every started command ending, the script ends with html_extra_path
\* assigned.
C8_Terminates == <>(pc = "done" /\ Assigned)

C8_Witness ==
    /\ pc = "done"
    /\ Assigned
    /\ Len(log) = 1
    /\ log[1].status # 0

\* C9: no step changes the working directory, the PATH or the HOME of the
\* Python process; the shell started from them, and its cd and PATH update
\* changed only its own copies.
C9_ParentUnchanged ==
    /\ [](Len(log) >= 1 => (log[1].cwd = pycwd /\ log[1].path = pypath))
    /\ [][pycwd' = pycwd /\ pypath' = pypath /\ home' = home]_vars

C9_Witness ==
    /\ pc = "done"
    /\ Len(log) >= 5
    /\ log[5].cwd # pycwd
    /\ log[5].path # pypath
    /\ shcwd # pycwd

\* C10: cmake and make run with PATH = $HOME/.conda/bin followed by the
\* original PATH, after both conda installations succeeded; the conda
\* installations run with the original PATH.
C10_PathAtBuild ==
    \A i \in DOMAIN log :
        /\ log[i].kind \in {"cmake", "make"} =>
              /\ log[i].path # << >>
              /\ Head(log[i].path) = home \o <<".conda", "bin">>
              /\ Tail(log[i].path) = pypath
              /\ i > 2
              /\ \A j \in {1, 2} : log[j].kind = "conda" /\ log[j].status = 0
        /\ log[i].kind = "conda" => log[i].path = pypath

C10_Witness ==
    /\ MakeWasRun
    /\ pypath # << >>
    /\ Head(pypath) # home \o <<".conda", "bin">>

====
